---- MODULE Spec2Model ----
(***************************************************************************)
(* Model of the two MCP test scripts, test-mcp.py and simple-mcp-test.py.  *)
(* Each script launches a subprocess, hands it a batch of newline          *)
(* delimited JSON-RPC messages on standard input, waits for it with a      *)
(* wall-clock timeout, and scans the lines of its standard output.         *)
(*                                                                         *)
(* The subprocess is the environment: it may exit with any output, or      *)
(* never exit.  An output is a sequence of lines; a line is described by   *)
(* what json.loads and the field tests of the scripts can see of it.       *)
(***************************************************************************)
EXTENDS Integers, Sequences, FiniteSets

\* ---------------------------------------------------------------- bounds
\* longest subprocess output, in lines
MaxLines == 2
\* longest 'tools' array of a response
MaxTools == 6

\* ------------------------------------------------------ program constants
\* communicate(..., timeout=30), in seconds
TIMEOUT_MCP == 30
\* subprocess.run(..., timeout=15), in seconds
TIMEOUT_SIMPLE == 15
\* tools[:5]
SHOWN == 5

Scripts == {"test-mcp", "simple-mcp-test"}

Min(a, b) == IF a < b THEN a ELSE b

\* ------------------------------------------------- the input stream (stdin)
\* The stream is a sequence of tokens: a JSON text, or a newline character.
Msg(id, method) == [nl |-> FALSE, id |-> id, method |-> method]
NL == [nl |-> TRUE, id |-> {}, method |-> ""]

\* the dict init_request, and its text in simple-mcp-test.py
init_request == Msg({1}, "initialize")
\* the dict init_notification: it has no id
init_notification == Msg({}, "notifications/initialized")
\* request of test 1 of test-mcp.py
tools_list_request == Msg({2}, "tools/list")
\* request of test 2 of test-mcp.py
cik_request == Msg({3}, "tools/call")
\* third request of simple-mcp-test.py
simple_cik_request == Msg({2}, "tools/call")

\* ''.join(parts): the parts one after the other
RECURSIVE JoinEmpty(_)
JoinEmpty(parts) ==
    IF parts = <<>> THEN <<>> ELSE Head(parts) \o JoinEmpty(Tail(parts))

\* '\n'.join(parts): a newline between two parts, none after the last
RECURSIVE JoinNewline(_)
JoinNewline(parts) ==
    IF parts = <<>> THEN <<>>
    ELSE IF Len(parts) = 1 THEN Head(parts)
    ELSE Head(parts) \o <<NL>> \o JoinNewline(Tail(parts))

\* requests_mcp with the actual request put first
requests_mcp_request_first(request) ==
    << <<request>> \o <<NL>>,
       <<init_request>> \o <<NL>>,
       <<init_notification>> \o <<NL>> >>

\* the list `requests` of send_mcp_request: each json.dumps(...) + '\n'
requests_mcp(request) ==
    << <<init_request>> \o <<NL>>,
       <<init_notification>> \o <<NL>>,
       <<request>> \o <<NL>> >>

\* the list `requests` of test_apple_cik: three texts, no newline in them
requests_simple ==
    << <<init_request>>, <<init_notification>>, <<simple_cik_request>> >>

\* input_data = '\n'.join(requests) + '\n'
input_data == JoinNewline(requests_simple) \o <<NL>>

\* ------------------------------------------------ the output stream (stdout)
GoodTool == [name |-> TRUE, description |-> TRUE]
NoNameTool == [name |-> FALSE, description |-> TRUE]
NoDescTool == [name |-> TRUE, description |-> FALSE]

OkTools(n) == [i \in 1..n |-> GoodTool]

\* 'tools' arrays a response may carry: well formed ones of every length,
\* and some with an entry that lacks a key
ToolLists ==
    {OkTools(n) : n \in 0..MaxTools}
        \cup {[OkTools(1) EXCEPT ![1] = NoDescTool],
              [OkTools(2) EXCEPT ![2] = NoNameTool]}

\* A line: lead = it begins with white space; form = what json.loads makes
\* of it ("blank", "text" and "brace_invalid" are not JSON); for an object,
\* id = the value of 'id' if present, result = "absent", "nonobject" or
\* "object", keys = keys of the result object, tools = result['tools'].
Line(lead, form, id, result, keys, tools) ==
    [lead |-> lead, form |-> form, id |-> id, result |-> result,
     keys |-> keys, tools |-> tools]

Other(form) == Line(FALSE, form, {}, "absent", {}, <<>>)
Obj(id, result, keys, tools) == Line(FALSE, "object", id, result, keys, tools)

\* the empty string
EmptyLine == Other("blank")

\* lines that are not JSON: json.loads raises JSONDecodeError
NotJson == {Other(f) : f \in {"blank", "text", "brace_invalid"}}

\* lines every loop is tried on: not JSON; JSON but no object; the answer to
\* 'initialize'; objects without 'id', without 'result', with a 'result'
\* that is no object; an answer after leading white space
Common ==
    NotJson
        \cup {Other("scalar"), Other("array")}
        \cup {Obj({1}, "object", {}, <<>>), Obj({}, "object", {}, <<>>)}
        \cup {Obj({2}, "absent", {}, <<>>), Obj({2}, "nonobject", {}, <<>>)}
        \cup {Line(TRUE, "object", {2}, "object", {"content"}, <<>>)}

\* the lines the subprocess may write, by script and test; lines a loop
\* cannot tell apart are given by one of them
LineAlphabet(s, t) ==
    IF s = "simple-mcp-test"
    THEN Common \cup {Obj({2}, "object", {"content"}, <<>>),
                      Obj({3}, "object", {}, <<>>)}
    ELSE IF t = 1
    THEN Common \cup {Obj({2}, "object", {"tools"}, tl) : tl \in ToolLists}
                \cup {Obj({1}, "object", {"tools"}, OkTools(1)),
                      Obj({3}, "object", {"content"}, <<>>)}
    ELSE Common \cup {Obj({2}, "object", {"tools"}, OkTools(1)),
                      Obj({3}, "object", {}, <<>>),
                      Obj({1}, "object", {"content"}, <<>>),
                      Obj({3}, "object", {"content"}, <<>>)}

\* every output of the subprocess: each line is followed by a newline
Outputs(s, t) == UNION {[1..n -> LineAlphabet(s, t)] : n \in 0..MaxLines}

\* stdout.strip().split('\n'): white space at both ends of the text is
\* dropped (blank lines, and the leading white space of the first line
\* left), and what remains is cut at the newlines; an all-blank text
\* gives the one empty line
StripSplit(text) ==
    LET keep == {i \in 1..Len(text) : text[i].form # "blank"}
        first == CHOOSE i \in keep : \A j \in keep : i <= j
        last == CHOOSE i \in keep : \A j \in keep : j <= i
    IN  IF keep = {} THEN <<EmptyLine>>
        ELSE [i \in 1..(last - first + 1) |->
                 IF i = 1 THEN [text[first] EXCEPT !.lead = FALSE]
                 ELSE text[first + i - 1]]

\* json.loads(line) raises json.JSONDecodeError
JSONDecodeError(line) == line.form \in {"blank", "text", "brace_invalid"}

\* line.strip() and line.startswith('{')
StartsWithBrace(line) ==
    /\ line.form # "blank"
    /\ ~line.lead
    /\ line.form \in {"object", "brace_invalid"}

\* ------------------------------------------------------------ what is printed
Pr(tag, n, src) == [tag |-> tag, n |-> n, src |-> src]
Say(tag) == Pr(tag, 0, EmptyLine)

\* --------------------------------------------------- the bodies of the loops
\* One pass of a `for line in lines` loop gives what it prints and how it
\* ends: "continue" (next line), "break" (the loop is left; `return` in
\* test_apple_cik) or "raise" (an exception no handler of the loop catches).
Pass(ctl, out) == [ctl |-> ctl, out |-> out]

\* test-mcp.py lines 70-76: the header, the first SHOWN tools, the rest as
\* a count; tool['name'] or tool['description'] of an entry that lacks the
\* key raises KeyError, after the lines before it were printed
PrintTools(line) ==
    LET tools == line.tools
        n == Len(tools)
        shown == Min(SHOWN, n)
        bad == {i \in 1..shown : ~(tools[i].name /\ tools[i].description)}
        stop == IF bad = {} THEN shown + 1
                ELSE CHOOSE i \in bad : \A j \in bad : i <= j
        toolLines == [i \in 1..(stop - 1) |-> Pr("tool", i, line)]
    IN  IF bad # {}
        THEN Pass("raise", <<Pr("found", n, line)>> \o toolLines)
        ELSE Pass("break", <<Pr("found", n, line)>> \o toolLines
                    \o (IF n > SHOWN THEN <<Pr("more", n - SHOWN, line)>>
                        ELSE <<>>))

\* test-mcp.py lines 67-78, the body of the loop of the tools-list test
ToolsListBody(line) ==
    IF JSONDecodeError(line) THEN Pass("continue", <<>>)
    \* 'result' in 123 raises TypeError; 'result' in [] is False
    ELSE IF line.form = "scalar" THEN Pass("raise", <<>>)
    ELSE IF line.form = "array" THEN Pass("continue", <<>>)
    ELSE IF line.result = "absent" THEN Pass("continue", <<>>)
    \* 'tools' in 5 raises TypeError
    ELSE IF line.result = "nonobject" THEN Pass("raise", <<>>)
    ELSE IF "tools" \in line.keys THEN PrintTools(line)
    ELSE Pass("continue", <<>>)

\* CikLookupBody whose second branch does not look at the id
CikLookupBodyAnyResult(line) ==
    IF JSONDecodeError(line) THEN Pass("continue", <<>>)
    ELSE IF line.form = "scalar" THEN Pass("raise", <<>>)
    ELSE IF line.form = "array" THEN Pass("continue", <<>>)
    ELSE IF line.result = "absent" THEN Pass("continue", <<>>)
    ELSE IF line.result = "nonobject" THEN Pass("raise", <<>>)
    ELSE IF "content" \in line.keys
    THEN Pass("break", <<Say("cik_header"), Pr("cik_content", 0, line)>>)
    ELSE Pass("break", <<Say("cik_header"), Pr("cik_result", 0, line)>>)

\* test-mcp.py lines 96-107, the body of the loop of the CIK-lookup test
CikLookupBody(line) ==
    IF JSONDecodeError(line) THEN Pass("continue", <<>>)
    ELSE IF line.form = "scalar" THEN Pass("raise", <<>>)
    ELSE IF line.form = "array" THEN Pass("continue", <<>>)
    ELSE IF line.result = "absent" THEN Pass("continue", <<>>)
    \* 'content' in 5 raises TypeError
    ELSE IF line.result = "nonobject" THEN Pass("raise", <<>>)
    ELSE IF "content" \in line.keys
    THEN Pass("break", <<Say("cik_header"), Pr("cik_content", 0, line)>>)
    \* response['id'] of an object without 'id' raises KeyError
    ELSE IF line.id = {} THEN Pass("raise", <<>>)
    ELSE IF line.id = {3}
    THEN Pass("break", <<Say("cik_header"), Pr("cik_result", 0, line)>>)
    ELSE Pass("continue", <<>>)

\* SimpleBody that gives up at the first line json.loads rejects
SimpleBodyStopsAtBadLine(line) ==
    IF ~StartsWithBrace(line) THEN Pass("continue", <<>>)
    ELSE IF JSONDecodeError(line) THEN Pass("break", <<>>)
    ELSE IF line.id = {2} THEN Pass("break", <<Pr("success", 0, line)>>)
    ELSE Pass("continue", <<>>)

\* SimpleBody without the `return` after the result is printed
SimpleBodyNoReturn(line) ==
    IF ~StartsWithBrace(line) THEN Pass("continue", <<>>)
    ELSE IF JSONDecodeError(line) THEN Pass("continue", <<>>)
    ELSE IF line.id = {2} THEN Pass("continue", <<Pr("success", 0, line)>>)
    ELSE Pass("continue", <<>>)

\* simple-mcp-test.py lines 35-43, the body of the loop of test_apple_cik
SimpleBody(line) ==
    IF ~StartsWithBrace(line) THEN Pass("continue", <<>>)
    ELSE IF JSONDecodeError(line) THEN Pass("continue", <<>>)
    \* response.get('id') == 2
    ELSE IF line.id = {2} THEN Pass("break", <<Pr("success", 0, line)>>)
    ELSE Pass("continue", <<>>)

\* the deadline of communicate() has passed
Expired(t, timeout) == t >= timeout

\* the timeout each script gives
TimeoutOf(s) == IF s = "test-mcp" THEN TIMEOUT_MCP ELSE TIMEOUT_SIMPLE

\* ------------------------------------------------------------------ state
VARIABLES
    script,     \* which script runs
    pc,         \* where it is
    test,       \* test-mcp.py: the test under way (1 or 2); 0 before
    request,    \* test-mcp.py: the request of the test under way
    proc,       \* the subprocess of each test: none, running, exited, killed
    pipe,       \* what the subprocess of the test under way wrote to stdout
    stdin,      \* what was written to its standard input
    elapsed,    \* seconds since communicate() was entered
    stdout,     \* the stdout the script got: [none, text]
    lines,      \* the list the loop runs over
    idx,        \* the position of the loop in it
    printed     \* what the test under way has printed so far

vars == <<script, pc, test, request, proc, pipe, stdin, elapsed, stdout,
          lines, idx, printed>>

NoneValue == [none |-> TRUE, text |-> <<>>]
Str(text) == [none |-> FALSE, text |-> text]

Init ==
    /\ script \in Scripts
    /\ pc = "start"
    /\ test = 0
    /\ request = NL
    /\ proc = [t \in 1..2 |-> "none"]
    /\ pipe = <<>>
    /\ stdin = <<>>
    /\ elapsed = 0
    /\ stdout = NoneValue
    /\ lines = <<>>
    /\ idx = 0
    /\ printed = <<>>

\* s is t or begins with t
IsPrefix(t, s) == Len(t) <= Len(s) /\ SubSeq(s, 1, Len(t)) = t

\* ---------------------------------------------------------- the subprocess
\* the subprocess writes a first line before it was sent anything
ProcEmit ==
    /\ pc = "send"
    /\ proc[test] = "running"
    /\ pipe = <<>>
    /\ pipe' \in {<<l>> : l \in LineAlphabet(script, test)}
    /\ UNCHANGED <<script, pc, test, request, proc, stdin, elapsed,
                   stdout, lines, idx, printed>>

\* the subprocess exits, by itself, at any time
ProcExit ==
    /\ pc \in {"send", "wait"}
    /\ proc[test] = "running"
    /\ proc' = [proc EXCEPT ![test] = "exited"]
    /\ UNCHANGED <<script, pc, test, request, pipe, stdin, elapsed,
                   stdout, lines, idx, printed>>

\* a second of wall-clock time goes by while communicate() waits
Tick ==
    /\ pc = "wait"
    /\ proc[test] = "running"
    /\ ~Expired(elapsed, TimeoutOf(script))
    /\ elapsed' = elapsed + 1
    /\ UNCHANGED <<script, pc, test, request, proc, pipe, stdin,
                   stdout, lines, idx, printed>>

\* ------------------------------------------------------- steps of both scripts
\* subprocess.Popen(cmd, ...) starts the subprocess
Popen ==
    /\ pc = "popen"
    /\ proc' = [proc EXCEPT ![test] = "running"]
    /\ pipe' = <<>>
    /\ stdin' = <<>>
    /\ elapsed' = 0
    /\ pc' = "send"
    /\ UNCHANGED <<script, test, request, stdout, lines, idx, printed>>

\* the loop goes to the next line, or ends after the last one
NextLine(after) ==
    IF idx < Len(lines)
    THEN idx' = idx + 1 /\ pc' = "loop"
    ELSE idx' = idx /\ pc' = after

\* ----------------------------------------------------------------- test-mcp.py
\* lines 55-63: the first test begins
MainTest1 ==
    /\ script = "test-mcp"
    /\ pc = "start"
    /\ printed' = Append(printed, Say("banner_tools_list"))
    /\ request' = tools_list_request
    /\ test' = 1
    /\ pc' = "popen"
    /\ UNCHANGED <<script, proc, pipe, stdin, elapsed, stdout,
                   lines, idx>>

\* lines 14-20: Popen raises (no docker): nothing catches it
PopenRaises ==
    /\ script = "test-mcp"
    /\ pc = "popen"
    /\ pc' = "crashed"
    /\ UNCHANGED <<script, test, request, proc, pipe, stdin,
                   elapsed, stdout, lines, idx, printed>>

\* SendRequests that sends the rest only once the answer to 'initialize'
\* has come
SendRequestsAfterInitResponse ==
    /\ script = "test-mcp"
    /\ pc = "send"
    /\ \E i \in 1..Len(pipe) : pipe[i].form = "object" /\ pipe[i].id = {1}
    /\ stdin' = JoinEmpty(requests_mcp(request))
    /\ pc' = "wait"
    /\ UNCHANGED <<script, test, request, proc, pipe, elapsed, stdout, lines,
                   idx, printed>>

\* lines 22-48: the three messages are built and communicate() writes them
SendRequests ==
    /\ script = "test-mcp"
    /\ pc = "send"
    /\ stdin' = JoinEmpty(requests_mcp(request))
    /\ pc' = "wait"
    /\ UNCHANGED <<script, test, request, proc, pipe, elapsed,
                   stdout, lines, idx, printed>>

\* lines 48-49: the subprocess has exited, communicate() returns its output
CommunicateReturns ==
    /\ script = "test-mcp"
    /\ pc = "wait"
    /\ proc[test] = "exited"
    /\ pipe' \in Outputs(script, test)
    /\ IsPrefix(pipe, pipe')
    /\ stdout' = Str(pipe')
    /\ elapsed' = 0
    /\ pc' = "check"
    /\ UNCHANGED <<script, test, request, proc, stdin, lines, idx,
                   printed>>

\* CommunicateTimeout without process.kill()
CommunicateTimeoutNoKill ==
    /\ script = "test-mcp"
    /\ pc = "wait"
    /\ proc[test] = "running"
    /\ Expired(elapsed, TimeoutOf(script))
    /\ pipe' \in Outputs(script, test)
    /\ IsPrefix(pipe, pipe')
    /\ stdout' = NoneValue
    /\ elapsed' = 0
    /\ pc' = "check"
    /\ UNCHANGED <<script, test, request, proc, stdin, lines, idx, printed>>

\* lines 48, 50-52: TimeoutExpired; the subprocess is killed, whatever it
\* wrote is dropped
CommunicateTimeout ==
    /\ script = "test-mcp"
    /\ pc = "wait"
    /\ proc[test] = "running"
    /\ Expired(elapsed, TimeoutOf(script))
    /\ pipe' \in Outputs(script, test)
    /\ IsPrefix(pipe, pipe')
    /\ proc' = [proc EXCEPT ![test] = "killed"]
    /\ stdout' = NoneValue
    /\ elapsed' = 0
    /\ pc' = "check"
    /\ UNCHANGED <<script, test, request, stdin, lines, idx,
                   printed>>

\* `if stdout:` and `lines = stdout.strip().split('\n')`
CheckStdout(after) ==
    /\ pc = "check"
    /\ IF ~stdout.none /\ stdout.text # <<>>
       THEN /\ lines' = StripSplit(stdout.text)
            /\ idx' = 1
            /\ pc' = "loop"
       ELSE /\ pc' = after
            /\ UNCHANGED <<lines, idx>>
    /\ UNCHANGED <<script, test, request, proc, pipe, stdin,
                   elapsed, stdout, printed>>

\* one pass of a loop of test-mcp.py
LoopPass(pass, after) ==
    /\ pc = "loop"
    /\ printed' = printed \o pass.out
    /\ IF pass.ctl = "continue" THEN NextLine(after)
       ELSE /\ pc' = (IF pass.ctl = "break" THEN after ELSE "crashed")
            /\ idx' = idx
    /\ UNCHANGED <<script, test, request, proc, pipe, stdin,
                   elapsed, stdout, lines>>

\* lines 64-65
Test1Check == script = "test-mcp" /\ test = 1 /\ CheckStdout("main2")

\* lines 66-78
Test1Pass ==
    /\ script = "test-mcp"
    /\ test = 1
    /\ pc = "loop"
    /\ LoopPass(ToolsListBody(lines[idx]), "main2")

\* lines 80-92: the second test begins; stdout, lines and line of the first
\* test are not read again before lines 92-95 assign them, and are dropped;
\* `printed` starts anew with the banner of the second test
MainTest2 ==
    /\ script = "test-mcp"
    /\ pc = "main2"
    /\ printed' = <<Say("banner_cik_lookup")>>
    /\ request' = cik_request
    /\ test' = 2
    /\ stdout' = NoneValue
    /\ lines' = <<>>
    /\ idx' = 0
    /\ pc' = "popen"
    /\ UNCHANGED <<script, proc, pipe, stdin, elapsed>>

\* lines 93-94
Test2Check == script = "test-mcp" /\ test = 2 /\ CheckStdout("done")

\* lines 95-107
Test2Pass ==
    /\ script = "test-mcp"
    /\ test = 2
    /\ pc = "loop"
    /\ LoopPass(CikLookupBody(lines[idx]), "done")

\* ---------------------------------------------------------- simple-mcp-test.py
\* lines 9-24: the batch of requests and the command are built
BuildInput ==
    /\ script = "simple-mcp-test"
    /\ pc = "start"
    /\ test' = 1
    /\ pc' = "popen"
    /\ UNCHANGED <<script, request, proc, pipe, stdin, elapsed,
                   stdout, lines, idx, printed>>

\* lines 27, 47-48: subprocess.run raises, `except Exception` prints it
RunRaises ==
    /\ script = "simple-mcp-test"
    /\ pc = "popen"
    /\ printed' = Append(printed, Say("error"))
    /\ pc' = "done"
    /\ UNCHANGED <<script, test, request, proc, pipe, stdin,
                   elapsed, stdout, lines, idx>>

\* line 27: subprocess.run writes input_data
RunWrite ==
    /\ script = "simple-mcp-test"
    /\ pc = "send"
    /\ stdin' = input_data
    /\ pc' = "wait"
    /\ UNCHANGED <<script, test, request, proc, pipe, elapsed,
                   stdout, lines, idx, printed>>

\* lines 27-34: subprocess.run returns; the raw output is printed and cut
\* into lines
RunReturns ==
    /\ script = "simple-mcp-test"
    /\ pc = "wait"
    /\ proc[test] = "exited"
    /\ pipe' \in Outputs(script, test)
    /\ IsPrefix(pipe, pipe')
    /\ stdout' = Str(pipe')
    /\ lines' = StripSplit(pipe')
    /\ printed' = printed \o <<Say("raw_output"), Say("parsed_header")>>
    /\ idx' = 1
    /\ elapsed' = 0
    /\ pc' = "loop"
    /\ UNCHANGED <<script, test, request, proc, stdin>>

\* RunTimeout of a subprocess.run without timeout: it never fires
RunWaitsForever ==
    /\ script = "simple-mcp-test"
    /\ pc = "wait"
    /\ proc[test] = "running"
    /\ FALSE
    /\ UNCHANGED vars

\* lines 27, 45-46: subprocess.run kills the subprocess and raises
\* TimeoutExpired; "Request timed out" is printed
RunTimeout ==
    /\ script = "simple-mcp-test"
    /\ pc = "wait"
    /\ proc[test] = "running"
    /\ Expired(elapsed, TimeoutOf(script))
    /\ pipe' \in Outputs(script, test)
    /\ IsPrefix(pipe, pipe')
    /\ proc' = [proc EXCEPT ![test] = "killed"]
    /\ printed' = Append(printed, Say("timed_out"))
    /\ elapsed' = 0
    /\ pc' = "done"
    /\ UNCHANGED <<script, test, request, stdin, stdout, lines,
                   idx>>

\* lines 34-43: one pass of the loop; `return` leaves the function
SimplePass ==
    /\ script = "simple-mcp-test"
    /\ pc = "loop"
    /\ LET pass == SimpleBody(lines[idx])
       IN  /\ printed' = printed \o pass.out
           /\ IF pass.ctl = "continue" THEN NextLine("done")
              ELSE pc' = "done" /\ idx' = idx
    /\ UNCHANGED <<script, test, request, proc, pipe, stdin,
                   elapsed, stdout, lines>>

\* ------------------------------------------------------------ specification
Next ==
    \/ ProcEmit
    \/ ProcExit
    \/ Tick
    \/ Popen
    \/ MainTest1
    \/ PopenRaises
    \/ SendRequests
    \/ CommunicateReturns
    \/ CommunicateTimeout
    \/ Test1Check
    \/ Test1Pass
    \/ MainTest2
    \/ Test2Check
    \/ Test2Pass
    \/ BuildInput
    \/ RunRaises
    \/ RunWrite
    \/ RunReturns
    \/ RunTimeout
    \/ SimplePass

Spec == Init /\ [][Next]_vars

\* the steps of the script itself, which Python takes one after the other
ScriptStep ==
    \/ Popen
    \/ MainTest1
    \/ PopenRaises
    \/ SendRequests
    \/ CommunicateReturns
    \/ CommunicateTimeout
    \/ Test1Check
    \/ Test1Pass
    \/ MainTest2
    \/ Test2Check
    \/ Test2Pass
    \/ BuildInput
    \/ RunRaises
    \/ RunWrite
    \/ RunReturns
    \/ RunTimeout
    \/ SimplePass

\* the script goes on and time goes by; the subprocess may never do a thing
LiveSpec == Spec /\ WF_vars(ScriptStep) /\ WF_vars(Tick)

\* the subprocess of test t was started
Launched(t) == proc[t] # "none"

\* the script has ended: normally, or with an uncaught exception
Terminated == pc \in {"done", "crashed"}

TypeOK ==
    /\ script \in Scripts
    /\ pc \in {"start", "popen", "send", "wait", "check", "loop", "main2",
               "done", "crashed"}
    /\ test \in 0..2
    /\ proc \in [1..2 -> {"none", "running", "exited", "killed"}]
    /\ elapsed \in 0..TIMEOUT_MCP
    /\ idx \in 0..MaxLines

\* ------------------------------------------------------------------ claims
\* the tags of what a test prints as its result
ResultTags(s, t) ==
    IF s = "simple-mcp-test" THEN {"success"}
    ELSE IF t = 1 THEN {"found", "tool", "more"}
    ELSE {"cik_header", "cik_content", "cik_result"}

\* the entries of `printed` with a tag of T
Entries(T) == {k \in 1..Len(printed) : printed[k].tag \in T}

\* the three newline-terminated messages a run is to write, in order
ExpectedStdin ==
    << Msg({1}, "initialize"), NL,
       Msg({}, "notifications/initialized"), NL,
       (IF script = "simple-mcp-test" THEN Msg({2}, "tools/call")
        ELSE IF test = 1 THEN Msg({2}, "tools/list")
        ELSE Msg({3}, "tools/call")), NL >>

\* C1: once a run has handed its input to the subprocess, the standard input
\* of that subprocess holds exactly the three newline-terminated messages
\* initialize (id 1), notifications/initialized (no id), the actual request,
\* in this order; before, it holds nothing
C1_StdinIsHandshakeThenRequest ==
    /\ pc # "start" /\ Launched(test) =>
        IF pc = "send" THEN stdin = <<>> ELSE stdin = ExpectedStdin
    /\ \A i \in 1..Len(stdin) :
        stdin[i].method \in {"tools/list", "tools/call"} =>
            /\ \E j \in 1..(i - 1) : stdin[j].method = "initialize"
            /\ \E j \in 1..(i - 1) :
                stdin[j].method = "notifications/initialized"

C1_Witness ==
    /\ script = "test-mcp"
    /\ test = 2
    /\ pc = "check"
    /\ Len(stdin) = 6
    /\ stdin[5] = cik_request

\* C2: the script leaves its wait for a subprocess that is still running
\* only when the timeout (30 s in test-mcp.py, 15 s in simple-mcp-test.py)
\* has passed, and then the subprocess is killed and the outcome is the
\* timeout one: send_mcp_request returns None as stdout, test_apple_cik
\* prints "Request timed out"; the output of a killed subprocess is never
\* scanned and no result is printed for that run
C2_TimeoutKillsAndPrintsNothing ==
    /\ [][(pc = "wait" /\ pc' # "wait" /\ proc[test] = "running") =>
            /\ elapsed >= (IF script = "test-mcp" THEN 30 ELSE 15)
            /\ proc'[test] = "killed"
            /\ IF script = "test-mcp"
               THEN stdout'.none /\ pc' = "check" /\ printed' = printed
               ELSE pc' = "done" /\ printed' = Append(printed, Say("timed_out"))
         ]_vars
    /\ [](pc = "check" /\ stdout.none => proc[test] = "killed")
    /\ [](pc # "start" /\ proc[test] = "killed" =>
            /\ pc # "loop"
            /\ Entries(ResultTags(script, test)) = {}
            /\ Entries({"raw_output", "parsed_header"}) = {})

C2_Witness ==
    /\ script = "test-mcp"
    /\ test = 1
    /\ proc[1] = "killed"
    /\ pipe # <<>>
    /\ pc = "main2"

\* the steps the test under way can still take, at most: one to start the
\* subprocess, one to write, one per second of the timeout, one to return,
\* one to look at stdout, one per line
StepsLeftInTest ==
    CASE pc = "start" -> 6 + TIMEOUT_MCP + MaxLines
      [] pc = "popen" -> 5 + TimeoutOf(script) + MaxLines
      [] pc = "send" -> 4 + TimeoutOf(script) + MaxLines
      [] pc = "wait" -> 3 + (TimeoutOf(script) - elapsed) + MaxLines
      [] pc = "check" -> 1 + MaxLines
      [] pc = "loop" -> 1 + Len(lines) - idx
      [] OTHER -> 0

\* the steps the script can still take, at most: test-mcp.py has a whole
\* second test to run when it is in its first
StepsLeft ==
    StepsLeftInTest
        + (IF script = "test-mcp" /\ test < 2 /\ ~Terminated
           THEN 7 + TIMEOUT_MCP + MaxLines ELSE 0)

\* C3: each script terminates (normally or with an uncaught exception),
\* whatever the subprocess does.  A script that has not ended can always
\* take a step or let a second go by, whether the subprocess has exited or
\* not; each such step lowers a natural number (the wait is bounded by the
\* timeout, the loop by the number of lines), and the steps of the
\* subprocess leave that number and the script where they are.
C3_ScriptTerminates ==
    /\ [](~Terminated => ENABLED (ScriptStep \/ Tick))
    /\ [](StepsLeft >= 0 /\ (Terminated => StepsLeft = 0))
    /\ [][\/ StepsLeft' < StepsLeft
          \/ /\ pc' = pc
             /\ elapsed' = elapsed
             /\ idx' = idx
             /\ proc[test] = "running"
             /\ StepsLeft' = StepsLeft
         ]_vars

C3_Witness ==
    /\ script = "simple-mcp-test"
    /\ pc = "done"
    /\ proc[1] = "killed"
    /\ StepsLeft = 0

\* the loop of the test under way prints this line as the result
MatchingResponse(line) ==
    /\ line.form = "object"
    /\ IF script = "simple-mcp-test" THEN ~line.lead /\ line.id = {2}
       ELSE IF test = 1 THEN line.result = "object" /\ "tools" \in line.keys
       ELSE /\ line.result = "object"
            /\ "content" \in line.keys \/ line.id = {3}

\* json.loads rejects the line
NotJsonLine(line) == line.form \in {"blank", "text", "brace_invalid"}

\* a loop has run and is over
LoopOver == lines # <<>> /\ pc \in {"main2", "done", "crashed"}

\* C4: a line that is not JSON prints nothing and does not end the scan,
\* which goes on with the next line; a matching response that only lines
\* that are not JSON precede is printed
C4_NonJsonLinesAreSkipped ==
    /\ [][pc = "loop" /\ NotJsonLine(lines[idx]) =>
            /\ printed' = printed
            /\ pc' # "crashed"
            /\ idx < Len(lines) => pc' = "loop" /\ idx' = idx + 1
         ]_vars
    /\ [](LoopOver =>
            \A j \in 1..Len(lines) :
                /\ MatchingResponse(lines[j])
                /\ \A i \in 1..(j - 1) : NotJsonLine(lines[i])
                => \E k \in Entries(ResultTags(script, test)) :
                        printed[k].src = lines[j])

C4_Witness ==
    /\ script = "simple-mcp-test"
    /\ pc = "done"
    /\ Len(lines) = 2
    /\ lines[1].form = "brace_invalid"
    /\ \E k \in Entries({"success"}) : printed[k].src = lines[2]

\* the lines of test_apple_cik's loop that start with '{', are JSON and
\* have id 2
SuccessLines ==
    {j \in 1..Len(lines) :
        ~lines[j].lead /\ lines[j].form = "object" /\ lines[j].id = {2}}

\* C5: test_apple_cik prints SUCCESS at most once, only for a line (of the
\* stripped output) that starts with '{', is JSON and has id 2; when the
\* function is over the line printed is the first such line and the scan
\* stopped there; without such a line nothing is printed as SUCCESS
C5_SuccessOnceForFirstId2Line ==
    script = "simple-mcp-test" =>
        /\ Cardinality(Entries({"success"})) <= 1
        /\ \A k \in Entries({"success"}) :
            /\ ~printed[k].src.lead
            /\ printed[k].src.form = "object"
            /\ printed[k].src.id = {2}
        /\ pc = "loop" => Entries({"success"}) = {}
        /\ LoopOver =>
            IF SuccessLines = {} THEN Entries({"success"}) = {}
            ELSE /\ \A j \in SuccessLines : idx <= j
                 /\ idx \in SuccessLines
                 /\ \E k \in Entries({"success"}) : printed[k].src = lines[idx]

C5_Witness ==
    /\ script = "simple-mcp-test"
    /\ pc = "done"
    /\ Len(lines) = 2
    /\ idx = 1
    /\ lines[2].id = {2}
    /\ Cardinality(Entries({"success"})) = 1

\* C6: what a script writes does not depend on what the subprocess wrote:
\* whatever is in the pipe, and whether the subprocess still runs, the
\* script can write at once, and what it writes in one step is the whole
\* batch of the three messages
C6_InputIndependentOfOutput ==
    /\ [](pc = "send" => ENABLED (SendRequests \/ RunWrite))
    /\ [][stdin' # stdin =>
            \/ stdin' = <<>> /\ pc = "popen"
            \/ stdin = <<>> /\ stdin' = ExpectedStdin /\ pipe' = pipe
         ]_vars

C6_Witness ==
    /\ script = "test-mcp"
    /\ pc = "wait"
    /\ stdin = ExpectedStdin
    /\ pipe # <<>>
    /\ pipe[1].id # {1}
    /\ proc[test] = "exited"

\* C7: test-mcp.py runs its two tests one after the other: the subprocess
\* of the second is started only when that of the first has exited or was
\* killed, the two never run together, and a script that ran the first test
\* and has ended has begun the second, whatever the first came to
C7_SecondTestAlwaysStarted ==
    script = "test-mcp" =>
        /\ ~(proc[1] = "running" /\ proc[2] = "running")
        /\ Launched(2) => proc[1] \in {"exited", "killed"}
        /\ Terminated /\ Launched(1) => test = 2

\* C8 as stated: what test-mcp.py prints as the CIK result is taken from
\* the response with id 3, and the tool list from the response with id 2
C8_ResultHasRequestId ==
    script = "test-mcp" =>
        /\ \A k \in Entries({"cik_content", "cik_result"}) :
            printed[k].src.id = {3}
        /\ \A k \in Entries({"found", "tool", "more"}) :
            printed[k].src.id = {2}

\* C8 as amended: the CIK result is the 'content' of a response whose result
\* has 'content', whatever its id, or else the result of a response whose id
\* is 3; the tool list is that of a response whose result has 'tools',
\* whatever its id; the result of a line without 'content' and with another
\* id than 3 is never printed
C8_ResultByContentOrId3 ==
    script = "test-mcp" =>
        /\ \A k \in Entries({"cik_content"}) :
            /\ printed[k].src.result = "object"
            /\ "content" \in printed[k].src.keys
        /\ \A k \in Entries({"cik_result"}) :
            /\ "content" \notin printed[k].src.keys
            /\ printed[k].src.id = {3}
        /\ \A k \in Entries({"found", "tool", "more"}) :
            /\ printed[k].src.result = "object"
            /\ "tools" \in printed[k].src.keys

C8_Witness ==
    /\ script = "test-mcp"
    /\ test = 2
    /\ pc = "done"
    /\ idx = 2
    /\ lines[1].id = {1}
    /\ lines[1].result = "object"
    /\ \E k \in Entries({"cik_result"}) : printed[k].src = lines[2]

\* C9: in test-mcp.py no line ends a loop with an uncaught exception, and a
\* line that is not the response looked for, JSON of another shape
\* included, prints nothing and lets the loop go on to the next line
C9_ScanNeverRaises ==
    [][script = "test-mcp" /\ pc = "loop" =>
        /\ pc' # "crashed"
        /\ ~MatchingResponse(lines[idx]) =>
            /\ printed' = printed
            /\ idx < Len(lines) => pc' = "loop" /\ idx' = idx + 1
      ]_vars

\* the lines of the tools-list loop whose result contains 'tools'
ToolsLines ==
    {j \in 1..Len(lines) :
        /\ lines[j].form = "object"
        /\ lines[j].result = "object"
        /\ "tools" \in lines[j].keys}

\* C10: when the tools-list loop is over and a line had 'tools', what was
\* printed after the banner is, for the first such line with its n tools:
\* the header with n, a line for each of the first min(n, 5) tools in
\* order, and the "k more" line with k = n - 5 if and only if n > 5
C10_ToolsPrintedUpToFive ==
    script = "test-mcp" /\ test = 1 /\ LoopOver /\ ToolsLines # {} =>
        LET first == CHOOSE j \in ToolsLines : \A i \in ToolsLines : j <= i
            n == Len(lines[first].tools)
            shown == IF n < 5 THEN n ELSE 5
        IN  printed =
                <<Say("banner_tools_list"), Pr("found", n, lines[first])>>
                    \o [i \in 1..shown |-> Pr("tool", i, lines[first])]
                    \o (IF n > 5 THEN <<Pr("more", n - 5, lines[first])>>
                        ELSE <<>>)

====
